---- MODULE Spec2Model ----
(***************************************************************************)
(* Suitability construction and dynamic spread simulation of the invasive  *)
(* species simulator (server/app/services/simulation_service.py,           *)
(* server/app/utils/run_simulation.py, server/app/services/simulation.py). *)
(*                                                                         *)
(* Numbers.  The program computes on float32/float64 arrays.  Here a real  *)
(* x is the integer x * Scale (four decimal digits); products and          *)
(* quotients are truncated toward zero.  The constant 1e-6 the code adds   *)
(* to denominators is kept exactly by writing those denominators in        *)
(* millionths (Micro).  Elevations are integer metres, climate values      *)
(* integer degrees / millimetres / percent, sigma integer metres.          *)
(***************************************************************************)
EXTENDS Integers, Sequences, FiniteSets, TLC

\* ------------------------------------------------------------------------
\* Fixed-point arithmetic
\* ------------------------------------------------------------------------
Scale == 10 ^ 4
Micro == 10 ^ 6
MicroPerUnit == Micro \div Scale

Abs(x) == IF x < 0 THEN -x ELSE x
Sgn(x) == IF x < 0 THEN -1 ELSE IF x > 0 THEN 1 ELSE 0
Min2(a, b) == IF a < b THEN a ELSE b
Max2(a, b) == IF a > b THEN a ELSE b

\* a * b = q * c + r with 0 <= r < c, for a, b >= 0 and c > 0, computed by
\* binary long multiplication so that no intermediate exceeds 2 * max(a, q).
RECURSIVE MulDivQR(_, _, _)
MulDivQR(a, b, c) ==
    IF b = 0 THEN [q |-> 0, r |-> 0]
    ELSE LET h  == MulDivQR(a, b \div 2, c)
             dc == IF h.r >= c - h.r THEN 1 ELSE 0
             q2 == 2 * h.q + dc
             r2 == IF dc = 1 THEN h.r - (c - h.r) ELSE 2 * h.r
             qa == a \div c
             ra == a % c
             ac == IF r2 >= c - ra THEN 1 ELSE 0
         IN  IF b % 2 = 0 THEN [q |-> q2, r |-> r2]
             ELSE [q |-> q2 + qa + ac,
                   r |-> IF ac = 1 THEN r2 - (c - ra) ELSE r2 + ra]

\* floor(a * b / c) for a, b >= 0 and c > 0: with a = qa * c + ra and
\* b = qb * c + rb it is qa * b + ra * qb + floor(ra * rb / c)
MaxInt == 2 * (2 ^ 30 - 1) + 1
MulDivNat(a, b, c) ==
    LET qa == a \div c
        ra == a % c
        qb == b \div c
        rb == b % c
    IN  qa * b + ra * qb +
        (IF ra = 0 \/ rb = 0 THEN 0
         ELSE IF ra <= MaxInt \div rb THEN (ra * rb) \div c
         ELSE MulDivQR(Max2(ra, rb), Min2(ra, rb), c).q)

\* trunc(a * b / c) for any signs of a and b, c > 0
MulDiv(a, b, c) ==
    IF a = 0 \/ b = 0 THEN 0
    ELSE Sgn(a) * Sgn(b) * MulDivNat(Abs(a), Abs(b), c)

\* fixed-point product and quotient
Mul(a, b) == MulDiv(a, b, Scale)
Div(a, b) == Sgn(b) * MulDiv(a, Scale, Abs(b))

\* np.clip(x, 0.0, 1.0)
Clip01(x) == IF x < 0 THEN 0 ELSE IF x > Scale THEN Scale ELSE x

\* int(x) of a fixed-point x: truncation toward zero
Trunc(x) == Sgn(x) * (Abs(x) \div Scale)

\* ------------------------------------------------------------------------
\* np.exp on non-positive arguments: exp(-x) for a fixed-point x >= 0
\* ------------------------------------------------------------------------
\* exp(-n) * Scale for the integer part n (0 beyond the table: below 1/Scale)
ExpNegInt == <<3679, 1353, 498, 183, 67, 25, 9, 3, 1>>
\* Taylor series of exp(-f) for 0 <= f < 1: sum of (-f)^k / k!
RECURSIVE ExpSeries(_, _, _)
ExpSeries(f, k, term) ==
    IF k > 9 \/ term = 0 THEN 0
    ELSE term + ExpSeries(f, k + 1, (-Mul(term, f)) \div k)

ExpNeg(x) ==
    LET n    == x \div Scale
        frac == ExpSeries(x % Scale, 1, Scale)
    IN  IF n = 0 THEN frac
        ELSE IF n > Len(ExpNegInt) THEN 0
        ELSE Mul(ExpNegInt[n], frac)

\* ------------------------------------------------------------------------
\* Python dict helpers (a dict is a function; a missing key is a KeyError or
\* the default of .get)
\* ------------------------------------------------------------------------
Get(d, k, default) == IF k \in DOMAIN d THEN d[k] ELSE default
EmptyDict == <<>>
Range(s) == {s[i] : i \in DOMAIN s}
\* an array whose entries are computed once, when it is built
Array(f) == f @@ <<>>

RECURSIVE SumSeq(_)
SumSeq(s) == IF s = <<>> THEN 0 ELSE Head(s) + SumSeq(Tail(s))

RECURSIVE SumOver(_, _)
SumOver(f, S) ==
    IF S = {} THEN 0
    ELSE LET x == CHOOSE y \in S : TRUE IN f[x] + SumOver(f, S \ {x})

\* ------------------------------------------------------------------------
\* Suitability and barrier (build_suitability_and_barrier)
\* ------------------------------------------------------------------------
Impls == {"service", "utils"}

BASE_CLASS_WEIGHTS ==
    111 :> 9000 @@ 113 :> 8000 @@ 112 :> 8500 @@ 114 :> 7500 @@ 115 :> 8000 @@
    116 :> 5000 @@ 121 :> 7000 @@ 123 :> 6500 @@ 122 :> 7000 @@ 124 :> 6000 @@
    125 :> 6000 @@ 126 :> 5000 @@ 20 :> 4000 @@ 30 :> 4000 @@ 40 :> 3000 @@
    50 :> 0 @@ 60 :> 2000 @@ 70 :> 1000 @@ 80 :> 0 @@ 90 :> 3000 @@ 100 :> 2000

CODE_TO_CAT ==
    111 :> "forest_closed" @@ 113 :> "forest_closed" @@ 112 :> "forest_closed" @@
    114 :> "forest_closed" @@ 115 :> "forest_closed" @@ 116 :> "forest_closed" @@
    121 :> "forest_open" @@ 123 :> "forest_open" @@ 122 :> "forest_open" @@
    124 :> "forest_open" @@ 125 :> "forest_open" @@ 126 :> "forest_open" @@
    20 :> "shrubs" @@ 30 :> "herbaceous" @@ 40 :> "cropland" @@ 50 :> "urban" @@
    70 :> "snow_ice" @@ 80 :> "water" @@ 90 :> "wetland" @@ 100 :> "moss_lichen"

\* s_class of one pixel: 0.1 unless the code is in the table
DefaultClassWeight == 1000
ClassScore(impl, code, habitat_pref) ==
    IF code \notin DOMAIN BASE_CLASS_WEIGHTS THEN DefaultClassWeight
    ELSE IF impl = "service"
         THEN Mul(BASE_CLASS_WEIGHTS[code],
                  Get(habitat_pref, Get(CODE_TO_CAT, code, "None"), Scale))
         ELSE BASE_CLASS_WEIGHTS[code]

\* (0.5 * (alt_max - alt_min) + 1e-6) in millionths of a metre
HalfMicro == Micro \div 2
DefaultAltitude == <<0, 3000>>

\* |elev - mid| / (half_range + 1e-6); any quotient above 1 is reported as
\* just above 1, the clip that follows does not tell them apart
ElevRatio(elev, alt_min, alt_max) ==
    LET num == Abs(2 * elev - (alt_min + alt_max))
        den == (alt_max - alt_min) * HalfMicro + 1
    IN  IF num > Abs(alt_max - alt_min) THEN Scale + 1
        ELSE MulDiv(num * Scale, HalfMicro, Abs(den))

ElevScore(impl, elev, altitude_tolerance) ==
    IF impl = "service"
    THEN LET alt_min  == altitude_tolerance[1]
             alt_max  == altitude_tolerance[2]
             s_el     == Clip01(Scale - ElevRatio(elev, alt_min, alt_max))
             mask_alt == elev >= alt_min /\ elev <= alt_max
         IN  IF mask_alt THEN s_el ELSE 0
    ELSE LET elev_min == DefaultAltitude[1]
             elev_max == DefaultAltitude[2]
         IN  Clip01(Scale - MulDiv(Abs(2 * elev - (elev_min + elev_max)), Scale,
                                   elev_max - elev_min))

BioVars == <<"bio1", "bio5", "bio6", "bio12", "bio15">>

clim_ranges(impl) ==
    "bio1" :> <<-10, 45>> @@ "bio5" :> <<0, 55>> @@ "bio6" :> <<-20, 30>> @@
    "bio12" :> <<0, IF impl = "service" THEN 3800 ELSE 3000>> @@
    "bio15" :> <<0, 100>>

\* normalised score of one variable at one pixel
ClimScore(impl, var, v, climate_tolerance) ==
    LET vmin == clim_ranges(impl)[var][1]
        vmax == clim_ranges(impl)[var][2]
        s    == Clip01(MulDiv(v - vmin, Scale, vmax - vmin))
        tol  == Get(climate_tolerance, var, <<vmin, vmax>>)
    IN  IF impl = "service"
        THEN IF v >= tol[1] /\ v <= tol[2] THEN s ELSE 0
        ELSE s

\* static weights of the service, by variable name
BioWeight == "bio1" :> 2500 @@ "bio5" :> 2000 @@ "bio6" :> 2000 @@
             "bio12" :> 2500 @@ "bio15" :> 500
\* weights of the utils variant, by position in the component list
PosWeights == <<2500, 2000, 2000, 2500, 500, 500>>

\* the bio5 - bio6 range component of the utils variant
RangeScore(clim) ==
    Clip01(MulDiv(clim["bio5"] - clim["bio6"], Scale,
                  clim_ranges("utils")["bio5"][2] - clim_ranges("utils")["bio6"][1]))

\* KeyError cases: a variable outside clim_ranges, or a variable the
\* combination reads that the map does not hold
BuildRaises(impl, order) ==
    \/ \E i \in DOMAIN order : order[i] \notin DOMAIN clim_ranges(impl)
    \/ impl = "service" /\ \E i \in DOMAIN BioVars : BioVars[i] \notin Range(order)
    \/ impl = "utils" /\ ({"bio5", "bio6"} \ Range(order) # {})

BioclimScore(impl, clim, order, climate_tolerance) ==
    IF impl = "service"
    THEN Clip01(SumSeq([i \in DOMAIN BioVars |->
             Mul(BioWeight[BioVars[i]],
                 ClimScore(impl, BioVars[i], clim[BioVars[i]], climate_tolerance))]))
    ELSE LET comps == [i \in DOMAIN order |->
                          ClimScore(impl, order[i], clim[order[i]], climate_tolerance)]
                      \o <<RangeScore(clim)>>
             n     == Min2(Len(comps), Len(PosWeights))
         IN  SumSeq([i \in 1..n |-> Mul(PosWeights[i], comps[i])])

W_CLASS == 3000
W_ELEV == 3000
W_CLIM == 4000

Composite(s_class, s_el, s_bioclim) ==
    Mul(W_CLASS, s_class) + Mul(W_ELEV, s_el) + Mul(W_CLIM, s_bioclim)

FinalClip_None(x) == x
FinalClip(x) == Clip01(x)

\* suitability of one pixel px = [code, elev, clim]
SuitabilityPixel(impl, px, order, sp) ==
    FinalClip(Composite(ClassScore(impl, px.code, sp.habitat_pref),
                        ElevScore(impl, px.elev, sp.altitude_tolerance),
                        BioclimScore(impl, px.clim, order, sp.climate_tolerance)))

WATER_CODE == 80
BARRIER_07_CODE == 60
BARRIER_07 == 7000

BarrierPixel(code) ==
    IF code = BARRIER_07_CODE THEN BARRIER_07
    ELSE IF code = WATER_CODE THEN Scale
    ELSE 0

\* ------------------------------------------------------------------------
\* Spread simulation (run_dynamic_simulation): pure parts
\* ------------------------------------------------------------------------
Cells(m) == (0 .. m.height - 1) \X (0 .. m.width - 1)
InGrid(m, i, j) == 0 <= i /\ i < m.height /\ 0 <= j /\ j < m.width

\* int(n / d): the quotient truncated toward zero
TruncDiv(n, d) == Sgn(n) * Sgn(d) * (Abs(n) \div Abs(d))

\* <<row0, col0>>: the service maps the centroid through the transform, the
\* utils variant takes the middle of the array
SeedPixel(impl, m, centroid) ==
    IF impl = "service"
    THEN <<TruncDiv(m.f - centroid[2], Abs(m.e)), TruncDiv(centroid[1] - m.c, m.a)>>
    ELSE <<m.height \div 2, m.width \div 2>>

PIX_SIZE_M == 100

FlightWord(impl) == IF impl = "service" THEN "aerial" ELSE "flight"
GroundWord(impl) == IF impl = "service" THEN "terrestrial" ELSE "ground"

\* sigma in metres after the mobility adjustment
EffectiveSigma(impl, sigma_m, mobility) ==
    IF impl = "service" /\ mobility = "aerial" THEN 2 * sigma_m ELSE sigma_m

KernelRadius(impl, sigma_m) ==
    LET rad == (3 * sigma_m) \div PIX_SIZE_M
    IN  IF impl = "service" THEN Max2(rad, 1) ELSE rad

Offsets(rad) == (-rad .. rad) \X (-rad .. rad)

\* exp(-(x^2 + y^2) / (2 * sigma_px^2)) with sigma_px = sigma_m / pix_size
Gauss(o, sigma_m) ==
    ExpNeg(MulDiv((o[1] * o[1] + o[2] * o[2]) * ((PIX_SIZE_M * PIX_SIZE_M) \div 2),
                  Scale, sigma_m * sigma_m))

\* kernel /= kernel.sum(): the entries are num[o] / den
KernelDen_Unnormalised(num) == Scale
KernelDen(num) == SumOver(num, DOMAIN num)
Normalise(num) == [num |-> num, den |-> KernelDen(num)]
Entry(k, o) == MulDiv(k.num[o], Scale, k.den)

BLEND_BASE == 8000
BLEND_WIDE == 2000
WIDE_FACTOR == 3

BuildKernel(impl, sigma_m, mobility) ==
    LET sig  == EffectiveSigma(impl, sigma_m, mobility)
        rad  == KernelRadius(impl, sig)
        base == Normalise([o \in Offsets(rad) |-> Gauss(o, sig)])
        wide == Normalise([o \in Offsets(rad) |-> Gauss(o, WIDE_FACTOR * sig)])
    IN  IF impl = "utils" /\ mobility = "flight"
        THEN Normalise([o \in Offsets(rad) |->
                 Mul(BLEND_BASE, Entry(base, o)) + Mul(BLEND_WIDE, Entry(wide, o))])
        ELSE base

\* D / (suitability + 1e-6)
CapacityMicro(s) == s * MicroPerUnit + 1
Ratio(d, s) == MulDiv(d, Micro, CapacityMicro(s))

\* the growth term of one cell
Growth(impl, r, dt, d, s) ==
    IF impl = "service"
    THEN Mul(Mul(Mul(Mul(r, s), d), Scale - Ratio(d, s)), dt)
    ELSE Mul(Mul(Mul(r, d), Scale - Ratio(d, s)), dt)

\* convolve2d(D2, kernel, mode="same", boundary="fill", fillvalue=0) at cell x
Convolve_Wrap(m, D2, k, rad, x) ==
    LET term == [o \in Offsets(rad) |->
                    MulDiv(D2[<<(x[1] - o[1]) % m.height, (x[2] - o[2]) % m.width>>],
                           k.num[o], k.den)]
    IN  SumOver(term, Offsets(rad))
Convolve(m, D2, k, rad, x) ==
    LET nb  == {y \in Cells(m) : Abs(x[1] - y[1]) <= rad /\ Abs(x[2] - y[2]) <= rad}
        term == [y \in nb |-> MulDiv(D2[y], k.num[<<x[1] - y[1], x[2] - y[2]>>], k.den)]
    IN  SumOver(term, nb)

\* D2 + dispersed * suitability * (1 - barrier)
Disperse_NoBarrier(d2, dispersed, s, b) == d2 + Mul(dispersed, s)
Disperse(d2, dispersed, s, b) == d2 + Mul(Mul(dispersed, s), Scale - b)

HALF == 5000
Threshold_Full(init_pop) == init_pop
Threshold(init_pop) == Mul(init_pop, HALF)
Occupied_AtLeast(d, threshold) == IF d >= threshold THEN 1 ELSE 0
Occupied_Below(d, threshold) == IF d < threshold THEN 1 ELSE 0
Occupied(d, threshold) == IF d > threshold THEN 1 ELSE 0

\* targets of the aerial jump of the service: int(r sin), int(r cos) for a
\* radius r in [0, max_disp_px)
MaxDispPx(max_dispersal_km) ==
    Max2(Trunc(max_dispersal_km * (1000 \div PIX_SIZE_M)), 1)
JumpOffsets(mx) ==
    {o \in (-mx .. mx) \X (-mx .. mx) : o[1] * o[1] + o[2] * o[2] < mx * mx}

\* ------------------------------------------------------------------------
\* State
\* ------------------------------------------------------------------------
VARIABLES
    impl,            \* which implementation runs: simulation_service or utils
    pc,              \* "align", "aligned", "build", "setup", "loop", "done",
                     \* "build_error", "sim_error"
    meta,            \* reference grid: height, width, transform a, e, c, f, crs
    layers,          \* layer name -> georeferencing of its source raster
    aligned,         \* layer name -> georeferencing of the array handed on
    centroid,        \* <<x, y>> of the region polygon's centroid
    pixels,          \* class_arr / elev_arr / clim per cell (builder input)
    climOrder,       \* keys of the climate map, in insertion order
    species_params,  \* the species parameter record
    suitability,     \* cell -> [0, Scale]
    barrier,         \* cell -> [0, Scale]
    seed,            \* <<row0, col0>>
    kernel,          \* [num, den]: dispersal kernel entries num[o] / den
    rad,             \* kernel radius
    D,               \* density per cell
    Infested,        \* occupancy per cell
    prev_infested,   \* occupancy of the previous step (service statistics)
    growth,          \* growth term of the last step
    jumped,          \* cells the last step's long-distance jump added to
    t,               \* number of completed steps
    output_paths,    \* one record per emitted occupancy raster
    results,         \* per-step statistics (service)
    runs,            \* API run -> its position and local variables
    docs,            \* region_id -> document of the "simulation" collection
    files,           \* temporary raster path -> what the file holds
    blobs            \* storage blob name -> what the blob holds

simVars == <<seed, kernel, rad, D, Infested, prev_infested, growth, jumped, t,
             output_paths, results>>
inVars == <<impl, meta, layers, aligned, centroid, pixels, climOrder, species_params>>
storeVars == <<runs, docs, files, blobs>>

ZeroGrid(m) == [x \in Cells(m) |-> 0]
CountOnes(g) == Cardinality({x \in DOMAIN g : g[x] = 1})

\* ------------------------------------------------------------------------
\* build_suitability_and_barrier
\* ------------------------------------------------------------------------
Build ==
    /\ pc = "build"
    /\ ~BuildRaises(impl, climOrder)
    /\ suitability' = [x \in Cells(meta) |->
                          SuitabilityPixel(impl, pixels[x], climOrder, species_params)]
    /\ barrier' = [x \in Cells(meta) |-> BarrierPixel(pixels[x].code)]
    /\ pc' = "setup"
    /\ UNCHANGED <<storeVars, inVars, simVars>>

BuildFail ==
    /\ pc = "build"
    /\ BuildRaises(impl, climOrder)
    /\ pc' = "build_error"
    /\ UNCHANGED <<storeVars, inVars, suitability, barrier, simVars>>

\* ------------------------------------------------------------------------
\* run_dynamic_simulation: parameters, seed pixel, kernel, initial fields
\* ------------------------------------------------------------------------
NoJump == [fired |-> FALSE, targets |-> <<>>, amount |-> 0]

SeedField(m, sd, value) ==
    [x \in Cells(m) |-> IF InGrid(m, sd[1], sd[2]) /\ x = sd THEN value ELSE 0]

Setup ==
    /\ pc = "setup"
    /\ LET sd == SeedPixel(impl, meta, centroid)
           sg == EffectiveSigma(impl, species_params.dispersalKernel,
                                species_params.mobility)
       IN  /\ seed' = sd
           /\ rad' = KernelRadius(impl, sg)
           /\ kernel' = BuildKernel(impl, species_params.dispersalKernel,
                                    species_params.mobility)
           /\ D' = SeedField(meta, sd, species_params.initial_population)
           /\ Infested' = SeedField(meta, sd, 1)
    /\ prev_infested' = ZeroGrid(meta)
    /\ growth' = ZeroGrid(meta)
    /\ jumped' = NoJump
    /\ t' = 0
    /\ output_paths' = <<>>
    /\ results' = <<>>
    /\ pc' = "loop"
    /\ UNCHANGED <<storeVars, inVars, suitability, barrier>>

\* ------------------------------------------------------------------------
\* run_dynamic_simulation: one iteration of `for t in range(T)`
\* ------------------------------------------------------------------------
\* Densities the fixed-point numbers can carry through one step: |D| at most
\* MaxDensity and |D / (suitability + 1e-6)| at most MaxRatio.
MaxDensity == 2
MaxRatio == 200000
MaxJumps == 1
InRange(d, s) ==
    /\ Abs(d) <= MaxDensity * Scale
    /\ (Abs(d) * MicroPerUnit) \div CapacityMicro(s) <= MaxRatio

GrowthField == [x \in Cells(meta) |->
    Growth(impl, species_params.maxGrowthRate, species_params.dt_years,
           D[x], suitability[x])]

AfterGrowth(g) == [x \in Cells(meta) |-> D[x] + g[x]]

AfterDispersal(D2) == [x \in Cells(meta) |->
    Disperse(D2[x], Convolve(meta, D2, kernel, rad, x), suitability[x], barrier[x])]

\* the long-distance jump events one step may draw; an event is the sequence
\* of target pixels, in or out of the grid, and the amount added at each
UtilsJumpCount(Dn) ==
    Trunc(Mul(SumOver(Dn, DOMAIN Dn), species_params.jump))

JumpEvents_AnyMobility(Dn) ==
    (IF species_params.jump < Scale THEN {NoJump} ELSE {})
    \cup (IF species_params.jump > 0
          THEN {[fired |-> TRUE,
                 targets |-> <<<<seed[1] + o[1], seed[2] + o[2]>>>>,
                 amount |-> species_params.initial_population] :
                   o \in JumpOffsets(MaxDispPx(species_params.max_dispersal_km))}
          ELSE {})
JumpEvents(Dn) ==
    IF impl = "service"
    THEN IF species_params.mobility = "aerial"
         THEN (IF species_params.jump < Scale THEN {NoJump} ELSE {})
              \cup (IF species_params.jump > 0
                    THEN {[fired |-> TRUE,
                           targets |-> <<<<seed[1] + o[1], seed[2] + o[2]>>>>,
                           amount |-> species_params.initial_population] :
                             o \in JumpOffsets(MaxDispPx(species_params.max_dispersal_km))}
                    ELSE {})
         ELSE {NoJump}
    ELSE IF species_params.mobility = "flight" /\ species_params.jump > 0
         THEN LET total  == SumOver(Dn, DOMAIN Dn)
                  n_jump == UtilsJumpCount(Dn)
              IN  {[fired |-> TRUE, targets |-> tg,
                    amount |-> Mul(total, species_params.jump) \div Max2(n_jump, 1)] :
                       tg \in [1 .. n_jump -> Cells(meta)]}
         ELSE {NoJump}

\* np.random.randint(0, h, n_jump) raises ValueError on a negative n_jump
JumpRaises(Dn) ==
    /\ impl = "utils"
    /\ species_params.mobility = "flight"
    /\ species_params.jump > 0
    /\ UtilsJumpCount(Dn) < 0

JumpCountInBound(Dn) ==
    (impl = "utils" /\ species_params.mobility = "flight" /\ species_params.jump > 0)
        => UtilsJumpCount(Dn) <= MaxJumps

Hits(ev, x) == Cardinality({i \in DOMAIN ev.targets : ev.targets[i] = x})
ApplyJump(Dn, ev) == [x \in DOMAIN Dn |-> Dn[x] + Hits(ev, x) * ev.amount]

\* Infested = (D_next > threshold).astype(np.uint8)
OccupancyOf(D_next) == [x \in DOMAIN D_next |->
    Occupied(D_next[x], Threshold(species_params.initial_population))]

\* to_cog may raise: the plain GeoTIFF path is appended instead
CogOutcomes == IF impl = "service" THEN {"cog", "tif"} ELSE {"tif"}

LoopContinues_StopWhenEmpty ==
    t < species_params.timesteps /\ CountOnes(Infested) > 0
LoopContinues_Inclusive == t <= species_params.timesteps
LoopContinues == t < species_params.timesteps

Step ==
    /\ pc = "loop"
    /\ LoopContinues
    /\ \A x \in Cells(meta) : InRange(D[x], suitability[x])
    /\ \E g \in {Array(GrowthField)} :
       \E D2 \in {Array(AfterGrowth(g))} :
       \E Dn \in {Array(AfterDispersal(D2))} :
         IF JumpRaises(Dn)
         THEN /\ pc' = "sim_error"
              /\ UNCHANGED <<D, Infested, prev_infested, growth, jumped, t,
                             output_paths, results>>
         ELSE /\ JumpCountInBound(Dn)
              /\ \E ev \in JumpEvents(Dn), kind \in CogOutcomes :
                 \E D_next \in {Array(ApplyJump(Dn, ev))} :
                 \E inf \in {Array(OccupancyOf(D_next))} :
                   /\ D' = D_next
                   /\ Infested' = inf
                   /\ growth' = g
                   /\ jumped' = ev
                   /\ output_paths' = Append(output_paths,
                          [step |-> t, kind |-> kind, grid |-> inf])
                   /\ results' =
                        IF impl = "service"
                        THEN Append(results,
                               [timestep |-> t,
                                occupied_pixels |-> CountOnes(inf),
                                newly_infested |-> Cardinality(
                                    {x \in Cells(meta) :
                                        inf[x] = 1 /\ prev_infested[x] = 0})])
                        ELSE results
                   /\ prev_infested' = inf
                   /\ t' = t + 1
                   /\ pc' = "loop"
    /\ UNCHANGED <<storeVars, inVars, suitability, barrier, seed, kernel, rad>>

\* the loop is over: return output_paths (and results)
Return ==
    /\ pc = "loop"
    /\ ~LoopContinues
    /\ pc' = "done"
    /\ UNCHANGED <<storeVars, inVars, suitability, barrier, simVars>>

\* ------------------------------------------------------------------------
\* Inputs
\* ------------------------------------------------------------------------
GridH == 3
GridW == 3
MaxT == 2

\* reference grid: 10 x 10 map units per pixel, origin (100, 200), north up
RefMeta == [height |-> GridH, width |-> GridW, a |-> 10, e |-> -10, c |-> 100,
            f |-> 200, crs |-> "EPSG:4326"]

\* centroids: in pixel (0,0), in pixel (1,1), half a pixel left of and above
\* the origin, and one pixel left of the grid
Centroids == {<<105, 195>>, <<115, 185>>, <<95, 205>>, <<85, 185>>}

\* the jump cases start in pixel (1,1) or one pixel left of the grid
JumpCentroids == {<<115, 185>>, <<85, 185>>}

SuitVals == {0, 100, 8000}
\* <<barrier elsewhere, barrier at the special cell>>
BarrierPatterns == {<<0, 0>>, <<Scale, 0>>, <<0, Scale>>}
SpecialCells == {<<0, 0>>, <<1, 1>>}
GrowthRates == {1000, 20000}
InitPops == {500, 2000}
Sigmas == {20, 40}
JumpVals == {0, 5000, Scale}

\* a grid that is bg everywhere and fg at the cell sp
Pattern(m, sp, bg, fg) == [x \in Cells(m) |-> IF x = sp THEN fg ELSE bg]

DefaultPixel == [code |-> 111, elev |-> 1500,
                 clim |-> [v \in Range(BioVars) |-> clim_ranges("service")[v][2]]]

SimParams(r, sigma, mob, jump, p0, T) ==
    [habitat_pref |-> EmptyDict, altitude_tolerance |-> DefaultAltitude,
     climate_tolerance |-> EmptyDict,
     maxGrowthRate |-> r, dispersalKernel |-> sigma, mobility |-> mob,
     jump |-> jump, initial_population |-> p0, timesteps |-> T,
     dt_years |-> Scale, max_dispersal_km |-> 2000]

\* terrain cases: a ground-bound species on every suitability / barrier
\* pattern, for a slow and a fast growth rate
TerrainParams == {SimParams(r, 80, "ground", 0, 2000, MaxT) : r \in GrowthRates}
\* kernel cases: every sigma and mobility class, no jump, T = 0 and T = MaxT
KernelParams ==
    {SimParams(1000, sigma, mob, 0, p0, T) :
        sigma \in Sigmas, mob \in {"ground", "flight"}, p0 \in InitPops,
        T \in {0, MaxT}}
\* jump cases: every jump probability / fraction for a flight-capable and
\* for a ground-bound species; the high initial population makes the utils
\* variant's n_jump positive in the first step
JumpParams ==
    {SimParams(1000, 40, mob, jump, 2000, 2) :
        mob \in {"flight", "ground"}, jump \in JumpVals}
    \cup {SimParams(1000, 40, mob, jump, 12000, 1) :
        mob \in {"flight", "ground"}, jump \in JumpVals}

\* scenario A: r = 0.1, sigma = 100 m, ground-bound, p0 = 0.05, T = 5
ScenarioAParams == {SimParams(1000, 100, "ground", 0, 500, 5)}

\* parameters outside the documented ranges: a negative growth rate, an
\* initial population of 0, dt = 0
OutOfRangeParams ==
    {SimParams(-1000, 40, "ground", 0, 2000, MaxT),
     SimParams(1000, 40, "ground", 0, 0, MaxT),
     [SimParams(1000, 40, "ground", 0, 2000, MaxT) EXCEPT !.dt_years = 0]}

\* fast growth from a full seed cell on poor habitat: r * dt > 1
OvershootParams == {SimParams(20000, 40, "ground", 0, Scale, MaxT)}
Mobility(i, p) ==
    IF p.mobility = "flight" THEN [p EXCEPT !.mobility = FlightWord(i)]
    ELSE [p EXCEPT !.mobility = GroundWord(i)]

\* no API run, document, temporary file or blob
StoreIdle ==
    /\ runs = <<>>
    /\ docs = <<>>
    /\ files = <<>>
    /\ blobs = <<>>

SimIdle ==
    /\ seed = <<0, 0>>
    /\ kernel = Normalise([o \in Offsets(0) |-> Scale])
    /\ rad = 0
    /\ D = ZeroGrid(meta)
    /\ Infested = ZeroGrid(meta)
    /\ prev_infested = ZeroGrid(meta)
    /\ growth = ZeroGrid(meta)
    /\ jumped = NoJump
    /\ t = 0
    /\ output_paths = <<>>
    /\ results = <<>>

\* run_dynamic_simulation called on given suitability and barrier arrays
InitSim ==
    /\ impl \in Impls
    /\ meta = RefMeta
    /\ layers = EmptyDict
    /\ aligned = EmptyDict
    /\ centroid \in Centroids
    /\ pixels = <<>>
    /\ climOrder = BioVars
    /\ \/ \E sp \in SpecialCells, sb \in SuitVals, sf \in SuitVals,
             bp \in BarrierPatterns, p \in TerrainParams :
            /\ suitability = Pattern(meta, sp, sb, sf)
            /\ barrier = Pattern(meta, sp, bp[1], bp[2])
            /\ species_params = Mobility(impl, p)
       \/ \E s \in SuitVals, p \in KernelParams :
            /\ suitability = Pattern(meta, <<0, 0>>, s, s)
            /\ barrier = Pattern(meta, <<0, 0>>, 0, 0)
            /\ species_params = Mobility(impl, p)
       \/ \E p \in JumpParams, bp \in {<<0, 0>>, <<Scale, 0>>}, s \in {0, 8000} :
            /\ centroid \in JumpCentroids
            /\ suitability = Pattern(meta, <<0, 0>>, s, s)
            /\ barrier = Pattern(meta, <<1, 1>>, bp[1], bp[2])
            /\ species_params = Mobility(impl, p)
       \/ \E p \in ScenarioAParams \cup OutOfRangeParams :
            /\ suitability = Pattern(meta, <<0, 0>>, 8000, 8000)
            /\ barrier = Pattern(meta, <<0, 0>>, 0, 0)
            /\ species_params = Mobility(impl, p)
       \/ \E p \in OvershootParams :
            /\ suitability = Pattern(meta, <<0, 0>>, 100, 100)
            /\ barrier = Pattern(meta, <<0, 0>>, 0, 0)
            /\ species_params = Mobility(impl, p)
    /\ pc = "setup"
    /\ SimIdle
    /\ StoreIdle

vars == <<impl, pc, meta, layers, aligned, centroid, pixels, climOrder, species_params,
          suitability, barrier, seed, kernel, rad, D, Infested, prev_infested,
          growth, jumped, t, output_paths, results, runs, docs, files, blobs>>

NextSim == Setup \/ Step \/ Return
SpecSim == InitSim /\ [][NextSim]_vars

\* ------------------------------------------------------------------------
\* The pipeline of generate_simulation_for_region: build, then simulate
\* ------------------------------------------------------------------------
Px(code, elev, b1, b5, b6, b12, b15) ==
    [code |-> code, elev |-> elev,
     clim |-> ("bio1" :> b1 @@ "bio5" :> b5 @@ "bio6" :> b6 @@ "bio12" :> b12 @@
               "bio15" :> b15)]

PxForest == Px(111, 1500, 45, 55, 30, 3800, 100)
PxWater == Px(80, 0, -10, 0, -20, 0, 0)
PxBuilt == Px(60, 3000, 17, 27, 5, 1900, 50)
PxUnknown == Px(7, 5000, 60, 70, 40, 5000, 150)
PxUrban == Px(50, 2500, 15, 25, 10, 1000, 60)
PixelTypes == {PxForest, PxWater, PxBuilt, PxUnknown, PxUrban}

HabitatPrefs == {EmptyDict,
                 "forest_closed" :> 30000 @@ "water" :> 20000,
                 "forest_closed" :> 0 @@ "urban" :> 5000}
AltTols == {DefaultAltitude, <<1000, 2000>>, <<2000, 1000>>}
ClimTols == {EmptyDict, "bio1" :> <<10, 20>> @@ "bio12" :> <<0, 4000>>}
ClimOrders == {BioVars,
               <<"bio15", "bio12", "bio6", "bio5", "bio1">>,
               <<"bio1", "bio5", "bio6", "bio12">>,
               <<"bio1", "bio6", "bio12", "bio15">>}

Init ==
    /\ impl \in Impls
    /\ meta = RefMeta
    /\ layers = EmptyDict
    /\ aligned = EmptyDict
    /\ centroid = <<115, 185>>
    /\ \E bg \in PixelTypes, fg \in {PxForest, PxWater} :
         pixels = Pattern(meta, <<1, 1>>, bg, fg)
    /\ climOrder \in ClimOrders
    /\ \E hp \in HabitatPrefs, at \in AltTols, ct \in ClimTols, T \in {0, 1} :
         species_params =
            [Mobility(impl, SimParams(1000, 40, "flight", 5000, 2000, T))
                EXCEPT !.habitat_pref = hp, !.altitude_tolerance = at,
                       !.climate_tolerance = ct]
    /\ suitability = ZeroGrid(meta)
    /\ barrier = ZeroGrid(meta)
    /\ pc = "build"
    /\ SimIdle
    /\ StoreIdle

Next == Build \/ BuildFail \/ Setup \/ Step \/ Return
Spec == Init /\ [][Next]_vars

\* ------------------------------------------------------------------------
\* Grid alignment: _mask_and_resample of the service's builder and
\* resample_rasters_to_match of run_simulation_job.  A grid is described by
\* its georeferencing: the width, height, transform and CRS under which its
\* samples lie where the source raster has them.
\* ------------------------------------------------------------------------
AlignImpls == {"service", "job"}
\* the service reads its reference from the land-cover file, the job from SRTM
RefLayer(i) == IF i = "service" THEN "copernicus" ELSE "srtm"
\* the layers handed to the suitability computation, in the order aligned
LayerOrder(i) ==
    IF i = "service" THEN <<"copernicus", "srtm">> \o BioVars
    ELSE <<"copernicus">> \o BioVars

\* src.read(1, out_shape=(H, W)): the whole source raster decimated to H x W;
\* the window src was masked to is discarded
ReadOutShape(src, H, W) ==
    [height |-> H, width |-> W,
     a |-> (src.a * src.width) \div W, e |-> (src.e * src.height) \div H,
     c |-> src.c, f |-> src.f, crs |-> src.crs]

\* rasterio.warp.reproject into an array of the reference's shape under the
\* reference's transform and CRS
Reproject(src, ref) ==
    [height |-> ref.height, width |-> ref.width, a |-> ref.a, e |-> ref.e,
     c |-> ref.c, f |-> ref.f, crs |-> ref.crs]

LayersLeft == Cardinality(DOMAIN aligned) < Len(LayerOrder(impl))
NextLayer == LayerOrder(impl)[Cardinality(DOMAIN aligned) + 1]
AfterLayer == IF Cardinality(DOMAIN aligned) + 1 = Len(LayerOrder(impl))
              THEN "aligned" ELSE "align"

MaskAndResample ==
    /\ pc = "align" /\ impl = "service" /\ LayersLeft
    /\ aligned' = (NextLayer :> ReadOutShape(layers[NextLayer], meta.height, meta.width))
                      @@ aligned
    /\ pc' = AfterLayer
    /\ UNCHANGED <<storeVars, impl, meta, layers, centroid, pixels, climOrder, species_params,
                   suitability, barrier, simVars>>

ResampleRastersToMatch ==
    /\ pc = "align" /\ impl = "job" /\ LayersLeft
    /\ aligned' = (NextLayer :> Reproject(layers[NextLayer], meta)) @@ aligned
    /\ pc' = AfterLayer
    /\ UNCHANGED <<storeVars, impl, meta, layers, centroid, pixels, climOrder, species_params,
                   suitability, barrier, simVars>>

\* source rasters: the reference grid itself, the same extent at twice the
\* resolution, an extent shifted by half a pixel, twice the extent at the
\* same resolution, and another CRS
Finer(m) == [m EXCEPT !.height = 2 * m.height, !.width = 2 * m.width,
                      !.a = m.a \div 2, !.e = -((-m.e) \div 2)]
Shifted(m) == [m EXCEPT !.c = m.c + m.a \div 2]
Wider(m) == [m EXCEPT !.height = 2 * m.height, !.width = 2 * m.width]
OtherCrs(m) == [m EXCEPT !.crs = "EPSG:32719"]
SourceMetas == {RefMeta, Finer(RefMeta), Shifted(RefMeta), Wider(RefMeta),
                OtherCrs(RefMeta)}

InitAlign ==
    /\ impl \in AlignImpls
    /\ \E cop \in SourceMetas, srtm \in SourceMetas, wc \in SourceMetas :
         layers = ("copernicus" :> cop @@ "srtm" :> srtm @@
                   [v \in Range(BioVars) |-> wc])
    /\ meta = layers[RefLayer(impl)]
    /\ aligned = EmptyDict
    /\ centroid = <<115, 185>>
    /\ pixels = <<>>
    /\ climOrder = BioVars
    /\ species_params = SimParams(1000, 40, GroundWord("service"), 0, 2000, 0)
    /\ suitability = ZeroGrid(meta)
    /\ barrier = ZeroGrid(meta)
    /\ pc = "align"
    /\ SimIdle
    /\ StoreIdle

NextAlign == MaskAndResample \/ ResampleRastersToMatch
SpecAlign == InitAlign /\ [][NextAlign]_vars

\* ------------------------------------------------------------------------
\* run_simulation_job (services/simulation.py): the occupancy loop
\* ------------------------------------------------------------------------
DEFAULT_TIMESTEPS == 20
COLONISE_ABOVE == 5000

DISPERSAL_KERNEL_Moore ==
    [o \in Offsets(1) |-> IF o = <<0, 0>> THEN 0 ELSE 2500]
DISPERSAL_KERNEL ==
    [o \in Offsets(1) |-> IF Abs(o[1]) + Abs(o[2]) = 1 THEN 2500 ELSE 0]

\* convolve2d(current_occ.astype(float), DISPERSAL_KERNEL, mode="same",
\*            boundary="fill", fillvalue=0) at pixel x
DispersalProb(occ, x) ==
    Convolve(meta, [y \in Cells(meta) |-> occ[y] * Scale],
             [num |-> DISPERSAL_KERNEL, den |-> Scale], 1, x)

Colonizable(occ, x) ==
    /\ DispersalProb(occ, x) > 0
    /\ suitability[x] > COLONISE_ABOVE
    /\ occ[x] = 0

\* one pass of `for t in range(1, DEFAULT_TIMESTEPS + 1)`; Infested holds
\* current_occ, results the occupied_count written for each step
JobStep ==
    /\ pc = "job"
    /\ t < DEFAULT_TIMESTEPS
    /\ \E new_occ \in {Array([x \in Cells(meta) |->
                          IF Colonizable(Infested, x) THEN 1 ELSE Infested[x]])} :
         /\ Infested' = new_occ
         /\ results' = Append(results, [t |-> t + 1,
                                        occupied_count |-> CountOnes(new_occ)])
    /\ t' = t + 1
    /\ UNCHANGED <<storeVars, inVars, pc, suitability, barrier, seed, kernel, rad, D,
                   prev_infested, growth, jumped, output_paths>>

\* the loop is over: the job is marked completed
JobComplete ==
    /\ pc = "job"
    /\ t = DEFAULT_TIMESTEPS
    /\ pc' = "job_done"
    /\ UNCHANGED <<storeVars, inVars, suitability, barrier, simVars>>

\* suitability of the job: around the 0.5 threshold, uniform but for one
\* pixel, or with a column of its own value
JobSuitVals == {0, 5000, 5001}
JobSuitabilities ==
    {Pattern(RefMeta, sp, bg, fg) : sp \in SpecialCells, bg \in JobSuitVals,
                                    fg \in JobSuitVals}
    \cup {[x \in Cells(RefMeta) |-> IF x[2] = 1 THEN lo ELSE 6000] : lo \in JobSuitVals}
\* initial occupancy: nothing, one pixel, or the first row
JobOccupancies ==
    {ZeroGrid(RefMeta)}
    \cup {Pattern(RefMeta, sp, 0, 1) : sp \in SpecialCells}
    \cup {[x \in Cells(RefMeta) |-> IF x[1] = 0 /\ x[2] = 0 THEN 1
                                    ELSE IF x = <<1, 0>> THEN 1 ELSE 0]}

InitJob ==
    /\ impl = "job"
    /\ meta = RefMeta
    /\ layers = EmptyDict
    /\ aligned = EmptyDict
    /\ centroid = <<115, 185>>
    /\ pixels = <<>>
    /\ climOrder = BioVars
    /\ species_params = SimParams(1000, 40, GroundWord("service"), 0, 2000, 0)
    /\ suitability \in JobSuitabilities
    /\ barrier = ZeroGrid(meta)
    /\ Infested \in JobOccupancies
    /\ seed = <<0, 0>>
    /\ kernel = Normalise([o \in Offsets(0) |-> Scale])
    /\ rad = 0
    /\ D = ZeroGrid(meta)
    /\ prev_infested = ZeroGrid(meta)
    /\ growth = ZeroGrid(meta)
    /\ jumped = NoJump
    /\ t = 0
    /\ output_paths = <<>>
    /\ results = <<>>
    /\ pc = "job"
    /\ StoreIdle

NextJob == JobStep \/ JobComplete
SpecJob == InitJob /\ [][NextJob]_vars

\* ------------------------------------------------------------------------
\* create_simulation and generate_simulation_for_region: API runs sharing the
\* "simulation" documents, the temporary folder of a region and the bucket
\* ------------------------------------------------------------------------
MaxRunT == 2
Runs == {"run1", "run2"}
\* "gone" has no document in "regions", "bare" none in "layers"
Regions == {"ra", "rb", "gone", "bare"}
ExistingRegions == {"ra", "rb", "bare"}
RegionsWithLayers == {"ra", "rb"}

NoDoc == [exists |-> FALSE, status |-> "", status_by |-> "", results_by |-> "",
          timesteps |-> <<>>, timesteps_by |-> "", error |-> ""]

\* read_simulation: what a reader of the region's document is given
ReadSimulation(g) ==
    IF ~docs[g].exists THEN [code |-> 404, status |-> "", timesteps |-> <<>>, error |-> ""]
    ELSE [code |-> 200, status |-> docs[g].status, timesteps |-> docs[g].timesteps,
          error |-> docs[g].error]

Put(f, k, v) == [x \in DOMAIN f \cup {k} |-> IF x = k THEN v ELSE f[x]]
Remove(f, K) == [x \in DOMAIN f \ K |-> f[x]]

\* os.path.join(TMP_ROOT, "sim", region_id, ...): the path depends on the
\* region only; the blob name is simulation/{region_id}/{basename}
LayerPath(g) == <<g, "layers", 0>>
TifPath(g, step) == <<g, "tif", step>>
CogPath(g, step) == <<g, "cog", step>>

\* the grids of the run are not followed here
RunFrame ==
    /\ pc = "serve"
    /\ UNCHANGED <<inVars, pc, suitability, barrier, simVars>>

\* an exception leaves the handler: create_simulation has no except clause
Raise(p, why) ==
    runs' = [runs EXCEPT ![p].pc = "raised", ![p].failed = why]
Goto(p, where) ==
    runs' = [runs EXCEPT ![p].pc = where]

\* create_simulation: the pending write, then the awaited generation
CreateSimulation(p) ==
    /\ runs[p].pc = "init"
    /\ docs' = [docs EXCEPT ![runs[p].region] =
                   [@ EXCEPT !.exists = TRUE, !.status = "pending", !.status_by = p]]
    /\ Goto(p, "region")
    /\ UNCHANGED <<files, blobs>>
    /\ RunFrame

ReadRegion(p) ==
    /\ runs[p].pc = "region"
    /\ IF runs[p].region \in ExistingRegions THEN Goto(p, "layers")
       ELSE Raise(p, "region")
    /\ UNCHANGED <<docs, files, blobs>>
    /\ RunFrame

DownloadLayers(p) ==
    /\ runs[p].pc = "layers"
    /\ IF runs[p].region \notin RegionsWithLayers
       THEN Raise(p, "layers") /\ UNCHANGED files
       ELSE \E ok \in BOOLEAN :
              IF ok
              THEN /\ files' = Put(files, LayerPath(runs[p].region),
                                   [by |-> p, step |-> 0, whole |-> TRUE])
                   /\ Goto(p, "build")
              ELSE Raise(p, "download") /\ UNCHANGED files
    /\ UNCHANGED <<docs, blobs>>
    /\ RunFrame

BuildSuitabilityAndBarrier(p) ==
    /\ runs[p].pc = "build"
    /\ IF LayerPath(runs[p].region) \notin DOMAIN files THEN Raise(p, "build")
       ELSE \E ok \in BOOLEAN : IF ok THEN Goto(p, "sim") ELSE Raise(p, "build")
    /\ UNCHANGED <<docs, files, blobs>>
    /\ RunFrame

\* rasterio.open(tif, "w") and dst.write of step t
WriteTif(p) ==
    /\ runs[p].pc = "sim"
    /\ runs[p].t < runs[p].T
    /\ \E whole \in BOOLEAN :
         /\ files' = Put(files, TifPath(runs[p].region, runs[p].t),
                         [by |-> p, step |-> runs[p].t, whole |-> whole])
         /\ IF whole THEN Goto(p, "cog") ELSE Raise(p, "write")
    /\ UNCHANGED <<docs, blobs>>
    /\ RunFrame

\* try: to_cog, os.remove, append the cog; except: append the tif
ToCog(p) ==
    LET g   == runs[p].region
        tif == TifPath(g, runs[p].t)
        cog == CogPath(g, runs[p].t)
    IN  /\ runs[p].pc = "cog"
        /\ \E ok \in (IF tif \in DOMAIN files THEN BOOLEAN ELSE {FALSE}) :
             IF ok
             THEN /\ files' = Remove(Put(files, cog, files[tif]), {tif})
                  /\ runs' = [runs EXCEPT ![p].pc = "sim", ![p].t = @ + 1,
                                          ![p].output_paths = Append(@, cog)]
             ELSE /\ UNCHANGED files
                  /\ runs' = [runs EXCEPT ![p].pc = "sim", ![p].t = @ + 1,
                                          ![p].output_paths = Append(@, tif)]
        /\ UNCHANGED <<docs, blobs>>
        /\ RunFrame

\* the document is set to "completed" with the results, before any upload
SetCompleted(p) ==
    /\ runs[p].pc = "sim"
    /\ runs[p].t = runs[p].T
    /\ docs' = [docs EXCEPT ![runs[p].region] =
                   [@ EXCEPT !.exists = TRUE, !.status = "completed",
                             !.status_by = p, !.results_by = p]]
    /\ Goto(p, "upload")
    /\ UNCHANGED <<files, blobs>>
    /\ RunFrame

UploadBlob(p) ==
    LET f == runs[p].output_paths[runs[p].k + 1]
    IN  /\ runs[p].pc = "upload"
        /\ runs[p].k < runs[p].T
        /\ IF f \notin DOMAIN files THEN Raise(p, "upload") /\ UNCHANGED blobs
           ELSE \E ok \in BOOLEAN :
                  IF ok
                  THEN /\ blobs' = Put(blobs, f, [content |-> files[f], by |-> p,
                                                  public |-> FALSE])
                       /\ Goto(p, "public")
                  ELSE Raise(p, "upload") /\ UNCHANGED blobs
        /\ UNCHANGED <<docs, files>>
        /\ RunFrame

MakePublic(p) ==
    LET f == runs[p].output_paths[runs[p].k + 1]
    IN  /\ runs[p].pc = "public"
        /\ \E ok \in BOOLEAN :
             IF ok
             THEN /\ blobs' = [blobs EXCEPT ![f].public = TRUE]
                  /\ runs' = [runs EXCEPT ![p].pc = "upload", ![p].k = @ + 1,
                                          ![p].sim_urls = Append(@, f)]
             ELSE Raise(p, "public") /\ UNCHANGED blobs
        /\ UNCHANGED <<docs, files>>
        /\ RunFrame

UpdateTimesteps(p) ==
    /\ runs[p].pc = "upload"
    /\ runs[p].k = runs[p].T
    /\ docs' = [docs EXCEPT ![runs[p].region] =
                   [@ EXCEPT !.timesteps = runs[p].sim_urls, !.timesteps_by = p]]
    /\ Goto(p, "cleanup")
    /\ UNCHANGED <<files, blobs>>
    /\ RunFrame

\* shutil.rmtree(tmp, ignore_errors=True), then the URLs are returned
RmTree(p) ==
    /\ runs[p].pc = "cleanup"
    /\ files' = Remove(files, {f \in DOMAIN files : f[1] = runs[p].region})
    /\ Goto(p, "returned")
    /\ UNCHANGED <<docs, blobs>>
    /\ RunFrame

NewRun(g, T) ==
    [pc |-> "init", region |-> g, T |-> T, t |-> 0, k |-> 0,
     output_paths |-> <<>>, sim_urls |-> <<>>, failed |-> ""]

InitRun ==
    /\ impl = "service"
    /\ meta = RefMeta
    /\ layers = EmptyDict
    /\ aligned = EmptyDict
    /\ centroid = <<115, 185>>
    /\ pixels = <<>>
    /\ climOrder = BioVars
    /\ species_params = SimParams(1000, 40, GroundWord("service"), 0, 2000, MaxRunT)
    /\ suitability = ZeroGrid(meta)
    /\ barrier = ZeroGrid(meta)
    /\ pc = "serve"
    /\ SimIdle
    /\ \E g \in Regions, T \in {1, MaxRunT} :
         runs = [p \in Runs |-> IF p = "run1" THEN NewRun("ra", MaxRunT)
                                ELSE NewRun(g, T)]
    /\ docs = [g \in Regions |-> NoDoc]
    /\ files = <<>>
    /\ blobs = <<>>

NextRun ==
    \E p \in Runs :
        \/ CreateSimulation(p)
        \/ ReadRegion(p)
        \/ DownloadLayers(p)
        \/ BuildSuitabilityAndBarrier(p)
        \/ WriteTif(p)
        \/ ToCog(p)
        \/ SetCompleted(p)
        \/ UploadBlob(p)
        \/ MakePublic(p)
        \/ UpdateTimesteps(p)
        \/ RmTree(p)
SpecRun == InitRun /\ [][NextRun]_vars

\* ------------------------------------------------------------------------
\* Properties
\* ------------------------------------------------------------------------
Started == pc \in {"loop", "done", "sim_error"}
JumpsDisabled ==
    species_params.jump = 0 \/ species_params.mobility = GroundWord(impl)
\* 0 <= D <= suitability + 1e-6 at cell x
WithinCapacity(x) ==
    0 <= D[x] /\ D[x] * MicroPerUnit <= CapacityMicro(suitability[x])
\* the pixel containing the centroid: floor((y0 - y) / |e|), floor((x - x0) / a)
CentroidPixel ==
    <<(meta.f - centroid[2]) \div Abs(meta.e), (centroid[1] - meta.c) \div meta.a>>
ScenarioB ==
    /\ InGrid(meta, seed[1], seed[2])
    /\ barrier[seed] = 0
    /\ \A x \in Cells(meta) \ {seed} : barrier[x] = Scale
ScenarioC == \A x \in Cells(meta) : suitability[x] = 0

\* C2, as stated: with jumps disabled, a cell with barrier 0 and positive
\* suitability that is occupied after step t-1 is occupied after step t.
C2_OccupiedStaysOccupied ==
    [][(pc = "loop" /\ t >= 1 /\ t' = t + 1 /\ JumpsDisabled)
          => \A x \in Cells(meta) :
                (barrier[x] = 0 /\ suitability[x] > 0 /\ Infested[x] = 1)
                    => Infested'[x] = 1]_vars

\* C2, amended: the same, for a step taken from a field in which every cell's
\* density lies between 0 and its carrying capacity suitability + 1e-6.
C2_OccupiedStaysWithinCapacity ==
    [][(/\ pc = "loop" /\ t >= 1 /\ t' = t + 1 /\ JumpsDisabled
        /\ \A y \in Cells(meta) : WithinCapacity(y))
          => \A x \in Cells(meta) :
                (barrier[x] = 0 /\ suitability[x] > 0 /\ Infested[x] = 1)
                    => Infested'[x] = 1]_vars

\* two steps done without jumps, growth nowhere negative in the second, and a
\* barrier-free suitable cell occupied after both
C2_Witness ==
    /\ pc = "loop" /\ t = 2 /\ JumpsDisabled
    /\ \A y \in Cells(meta) : growth[y] >= 0 /\ WithinCapacity(y)
    /\ \E x \in Cells(meta) :
         /\ barrier[x] = 0 /\ suitability[x] > 0 /\ growth[x] > 0
         /\ output_paths[1].grid[x] = 1 /\ output_paths[2].grid[x] = 1

\* C3: the growth term of a step is 0 at every cell whose suitability is 0,
\* whatever the density there.
C3_NoGrowthWhereUnsuitable ==
    Started => \A x \in Cells(meta) : suitability[x] = 0 => growth[x] = 0

\* C4, as stated: when every cell but the seed has barrier 1, every emitted
\* grid has exactly one occupied cell.
C4_ScenarioB_CountIsOne ==
    (Started /\ ScenarioB)
        => \A i \in DOMAIN output_paths : CountOnes(output_paths[i].grid) = 1

\* C4, amended: in scenario B with jumps disabled a step leaves no cell but
\* the seed occupied, and leaves the seed occupied when its density before
\* the step was above the threshold and within its carrying capacity.
C4_ScenarioB_SeedOnly ==
    [][(pc = "loop" /\ t' = t + 1 /\ ScenarioB /\ JumpsDisabled)
          => /\ \A x \in Cells(meta) \ {seed} : Infested'[x] = 0
             /\ (D[seed] > Threshold(species_params.initial_population)
                   /\ WithinCapacity(seed))
                  => CountOnes(Infested') = 1]_vars

\* scenario B ran to the end on a suitable seed: one occupied cell each step
C4_Witness ==
    /\ pc = "done" /\ ScenarioB /\ JumpsDisabled
    /\ suitability[seed] = 8000 /\ WithinCapacity(seed)
    /\ Len(output_paths) = MaxT
    /\ \A i \in DOMAIN output_paths : CountOnes(output_paths[i].grid) = 1

\* C5: when the suitability is 0 everywhere, the density field after every
\* step equals the initial field.
C5_ScenarioC_FieldUnchanged ==
    (Started /\ ScenarioC)
        => D = SeedField(meta, seed, species_params.initial_population)

\* C6: when the centroid lies in the grid, the initial field has the initial
\* population at the centroid's pixel and 0 elsewhere, and the initial
\* occupancy is 1 at that pixel and 0 elsewhere.
C6_SeedIsCentroidPixel ==
    (pc = "loop" /\ t = 0 /\ InGrid(meta, CentroidPixel[1], CentroidPixel[2]))
        => /\ D = SeedField(meta, CentroidPixel, species_params.initial_population)
           /\ Infested = SeedField(meta, CentroidPixel, 1)

C9_KernelSumsToOne ==
    Started => /\ DOMAIN kernel.num = Offsets(rad)
               /\ kernel.den > 0
               /\ SumOver(kernel.num, DOMAIN kernel.num) = kernel.den

\* the service's radius clamped from 0 to 1 (sigma 20 m on 100 m pixels)
C9_Witness ==
    /\ pc = "loop" /\ impl = "service"
    /\ species_params.dispersalKernel = 20 /\ species_params.mobility = "terrestrial"
    /\ rad = 1 /\ Cardinality(DOMAIN kernel.num) = 9

\* C1: every pixel of the suitability grid and of the barrier grid that
\* build_suitability_and_barrier returns lies in [0, 1].
C1_GridsInUnitInterval ==
    pc \notin {"build", "build_error"}
        => \A x \in Cells(meta) :
              /\ 0 <= suitability[x] /\ suitability[x] <= Scale
              /\ 0 <= barrier[x] /\ barrier[x] <= Scale

\* a built grid with a pixel whose weighted sum exceeded 1 before the final
\* clip (habitat multiplier 3 on closed forest) and a pixel of barrier 0.7
C1_Witness ==
    /\ pc = "setup" /\ impl = "service"
    /\ \E x \in Cells(meta) :
         /\ suitability[x] = Scale
         /\ Composite(ClassScore(impl, pixels[x].code, species_params.habitat_pref),
                      ElevScore(impl, pixels[x].elev, species_params.altitude_tolerance),
                      BioclimScore(impl, pixels[x].clim, climOrder,
                                   species_params.climate_tolerance)) > Scale
    /\ \E y \in Cells(meta) : barrier[y] = BARRIER_07

\* C7: a run with timesteps = 0 on the builder's output emits no occupancy
\* output and raises nothing.
C7_ZeroStepsEmptyOutput ==
    (species_params.timesteps = 0 /\ pixels # <<>>)
        => /\ pc # "sim_error"
           /\ Started => (t = 0 /\ output_paths = <<>> /\ results = <<>>)

\* a finished run of zero steps on a built grid with a suitable pixel
C7_Witness ==
    /\ pc = "done" /\ species_params.timesteps = 0 /\ pixels # <<>>
    /\ output_paths = <<>>
    /\ \E x \in Cells(meta) : suitability[x] > 0 /\ suitability[x] = SuitabilityPixel(
           impl, pixels[x], climOrder, species_params)

\* C10: every grid the alignment step hands on has the width, height,
\* transform and CRS of the reference grid.
C10_AlignedLikeReference ==
    \A l \in DOMAIN aligned :
        /\ aligned[l].width = meta.width /\ aligned[l].height = meta.height
        /\ aligned[l].a = meta.a /\ aligned[l].e = meta.e
        /\ aligned[l].c = meta.c /\ aligned[l].f = meta.f
        /\ aligned[l].crs = meta.crs

ScenarioA ==
    /\ InGrid(meta, seed[1], seed[2])
    /\ \A x \in Cells(meta) : suitability[x] = 8000 /\ barrier[x] = 0
    /\ species_params \in {Mobility(impl, p) : p \in ScenarioAParams}
\* occupied pixel count of the i-th emitted grid; the seed state counts 1
CountAt(i) == IF i = 0 THEN 1 ELSE CountOnes(output_paths[i].grid)
Increases == {i \in DOMAIN output_paths : CountAt(i) > CountAt(i - 1)}

\* C11, as stated: in scenario A the occupied pixel count strictly increases
\* at at least 3 of the 5 steps.
C11_ScenarioA_ThreeIncreases ==
    (pc = "done" /\ ScenarioA) => Cardinality(Increases) >= 3

\* C11, amended: in scenario A the count never decreases, is 1 after each of
\* the first three steps and above 1 after the fourth and fifth, so it
\* strictly increases at no more than 2 of the 5 steps.
C11_ScenarioA_LateIncrease ==
    (Started /\ ScenarioA)
        => /\ \A i \in DOMAIN output_paths :
                /\ CountAt(i) >= CountAt(i - 1)
                /\ i <= 3 => CountAt(i) = 1
                /\ i >= 4 => CountAt(i) > 1
           /\ Cardinality(Increases) <= 2

\* scenario A ran its five steps and the count rose at the fourth
C11_Witness ==
    /\ pc = "done" /\ ScenarioA /\ Len(output_paths) = 5
    /\ CountAt(3) = 1 /\ CountAt(4) > 1

MissingVariable == \E i \in DOMAIN BioVars : BioVars[i] \notin Range(climOrder)

\* C12: when one of the five climate variables is absent from the climate
\* map, the build fails: no grids are returned, no step runs and no
\* occupancy output is emitted.
C12_MissingVariableFails ==
    MissingVariable
        => /\ pc \in {"build", "build_error"}
           /\ t = 0 /\ output_paths = <<>>

\* a parameter outside its documented range: r > 0, sigma > 0, p0 in (0, 1],
\* T > 0, dt > 0
InvalidParams ==
    \/ species_params.maxGrowthRate <= 0
    \/ species_params.dispersalKernel <= 0
    \/ species_params.initial_population <= 0
    \/ species_params.initial_population > Scale
    \/ species_params.timesteps <= 0
    \/ species_params.dt_years <= 0

\* C13: run_dynamic_simulation rejects a parameter record with a value out
\* of range: the step loop is not entered and no occupancy output is emitted.
C13_InvalidParamsRejected ==
    InvalidParams => (pc \in {"setup", "sim_error"} /\ output_paths = <<>>)

\* r * D * (1 - D / (suitability + eps)) * dt
LogisticTerm(r, dt, d, s) == Mul(Mul(Mul(r, d), Scale - Ratio(d, s)), dt)

\* C14: the growth term a step adds at each cell is
\* r * D * (1 - D / (suitability + 1e-6)) * dt, with no further factor.
C14_GrowthIsPlainLogistic ==
    [][(pc = "loop" /\ t' = t + 1)
          => \A x \in Cells(meta) :
                growth'[x] = LogisticTerm(species_params.maxGrowthRate,
                                          species_params.dt_years, D[x], suitability[x])]_vars

\* the kernel-weighted sum around x of a field that is 0 outside the grid
\* convolution at x over the whole kernel window, the field read as 0
\* outside the grid; the window is walked row by row from index k
RECURSIVE ZeroFillFrom(_, _, _)
ZeroFillFrom(D2, x, k) ==
    IF k >= (2 * rad + 1) * (2 * rad + 1) THEN 0
    ELSE LET o == <<(k \div (2 * rad + 1)) - rad, (k % (2 * rad + 1)) - rad>>
             y == <<x[1] - o[1], x[2] - o[2]>>
         IN  (IF InGrid(meta, y[1], y[2]) /\ D2[y] # 0
              THEN MulDiv(D2[y], kernel.num[o], kernel.den)
              ELSE 0) + ZeroFillFrom(D2, x, k + 1)
ZeroFillSum(D2, x) == ZeroFillFrom(D2, x, 0)

\* v is the growth-plus-dispersal density of cell x for the grown field D2
IsGrowthPlusDispersal(D2, x, v) ==
    \E z \in {ZeroFillSum(D2, x)} :
      \E m \in {Mul(z, suitability[x])} :
        v = D2[x] + Mul(m, Scale - barrier[x])

\* C15: in the dispersal stage a cell of barrier 1 keeps its post-growth
\* density, and every cell receives the kernel-weighted sum of the in-grid
\* post-growth densities only (cells outside the grid count 0).
C15_BarrierBlocksAndZeroFill ==
    [][(pc = "loop" /\ t' = t + 1)
          => \E D2 \in {Array([y \in Cells(meta) |-> D[y] + growth'[y]])} :
               \A x \in Cells(meta) :
                 \E disp \in {D'[x] - Hits(jumped', x) * jumped'.amount} :
                   /\ barrier[x] = Scale => disp = D2[x]
                   /\ IsGrowthPlusDispersal(D2, x, disp)]_vars

\* after a step from a corner seed: a suitable cell of barrier 1 next to the
\* seed holds nothing although the seed's kernel window reaches it
C15_Witness ==
    /\ pc = "loop" /\ t >= 1 /\ seed = <<0, 0>> /\ rad >= 1
    /\ D[seed] > 0 /\ barrier[seed] = 0
    /\ barrier[<<0, 1>>] = Scale /\ suitability[<<0, 1>>] > 0 /\ D[<<0, 1>>] = 0

\* C16: after every step a cell is occupied exactly when its density is
\* strictly above half the initial population, the same threshold at every
\* step; every emitted grid is the occupancy of its step.
C16_OccupiedIffAboveThreshold ==
    (Started /\ t >= 1)
        => /\ \A x \in Cells(meta) :
                Infested[x] = (IF 2 * D[x] > species_params.initial_population
                               THEN 1 ELSE 0)
           /\ output_paths[t].grid = Infested

\* a step left a cell exactly at the threshold, and not occupied
C16_Witness ==
    /\ pc = "loop" /\ t >= 1
    /\ \E x \in Cells(meta) :
         2 * D[x] = species_params.initial_population /\ Infested[x] = 0

\* C17: for a species that is not flight-capable no jump is applied, whatever
\* the jump probability: each step's density is the growth-plus-dispersal
\* result, a function of the field before the step.
C17_NoJumpWithoutFlight ==
    [][(pc = "loop" /\ t' = t + 1 /\ species_params.mobility = GroundWord(impl))
          => /\ ~jumped'.fired
             /\ \E D2 \in {Array([y \in Cells(meta) |-> D[y] + growth'[y]])} :
                  \A x \in Cells(meta) : IsGrowthPlusDispersal(D2, x, D'[x])]_vars

\* a ground-bound species with jump probability 1 has made a step
C17_Witness ==
    /\ pc = "loop" /\ t >= 1
    /\ species_params.mobility = GroundWord(impl) /\ species_params.jump = Scale
    /\ ~jumped.fired /\ InGrid(meta, seed[1], seed[2]) /\ D[seed] > 0

\* C18: a jump that fires changes at most one cell: the cell at a polar offset
\* of radius at most maxDispersalKm (in pixels) from the seed pixel gains
\* exactly initialPopulation when it lies inside the grid, and nothing
\* changes when it lies outside.
C18_JumpHitsOneCellFromSeed ==
    [][(pc = "loop" /\ t' = t + 1 /\ jumped'.fired /\ jumped'.targets # <<>>)
          => \E D2 \in {Array([y \in Cells(meta) |-> D[y] + growth'[y]])} :
               \E o \in JumpOffsets(MaxDispPx(species_params.max_dispersal_km)) :
                 \A x \in Cells(meta) :
                   IsGrowthPlusDispersal(D2, x,
                       D'[x] - (IF x = <<seed[1] + o[1], seed[2] + o[2]>>
                                THEN species_params.initial_population ELSE 0))]_vars

\* C19: the barrier built is 1.0 at permanent water, 0.7 at the class that
\* CODE_TO_CAT names 'urban', and 0.0 at every other pixel.
C19_BarrierByClass ==
    (pc \notin {"build", "build_error"})
        => \A x \in Cells(meta) :
             barrier[x] = IF pixels[x].code = WATER_CODE THEN Scale
                          ELSE IF Get(CODE_TO_CAT, pixels[x].code, "") = "urban"
                               THEN BARRIER_07
                          ELSE 0

\* C20: with all five climate variables supplied, the suitability built does
\* not depend on the order in which the input map lists them: it equals the
\* suitability built from the same grids listed as bio1, bio5, bio6, bio12,
\* bio15.
C20_OrderIndependent ==
    (/\ pc \notin {"build", "build_error"}
     /\ Len(climOrder) = Len(BioVars) /\ Range(climOrder) = Range(BioVars))
        => \A x \in Cells(meta) :
             suitability[x] = SuitabilityPixel(impl, pixels[x], BioVars, species_params)

\* C21: once the run has set up its kernel, the kernel radius is
\* max(trunc(3 * sigma / pixel size), 1) for the sigma the run uses, so it is
\* at least 1 and the kernel window is at least 3x3.
C21_RadiusAtLeastOne ==
    Started =>
        /\ rad = Max2((3 * EffectiveSigma(impl, species_params.dispersalKernel,
                                           species_params.mobility)) \div PIX_SIZE_M, 1)
        /\ rad >= 1
        /\ Cardinality(DOMAIN kernel.num) >= 9

\* C22: the service variant seeds the field exactly when the centroid lies
\* inside the grid extent, at the pixel given by the floor of the transform;
\* with the centroid outside the extent it starts from an all-zero field.
C22_SeededIffCentroidInExtent ==
    (impl = "service" /\ pc = "loop" /\ t = 0)
        => /\ D = SeedField(meta, CentroidPixel, species_params.initial_population)
           /\ Infested = SeedField(meta, CentroidPixel, 1)

\* C23: for parameters in their documented ranges (r > 0, dt > 0, initial
\* population in (0,1]) every cell's density is >= 0 in every state of the run.
ValidParams ==
    /\ species_params.maxGrowthRate > 0
    /\ species_params.dt_years > 0
    /\ species_params.initial_population > 0
    /\ species_params.initial_population <= Scale
C23_DensityNonNegative ==
    (Started /\ ValidParams) => \A x \in Cells(meta) : D[x] >= 0

\* C24: the class score of a pixel is the base weight of its code times the
\* species' preference multiplier for the code's habitat category (1.0 when
\* the category has no entry or the code has no category), and 0.1 for a
\* code outside the weight table; the suitability built uses that score.
PreferredClassScore(code, habitat_pref) ==
    IF code \notin DOMAIN BASE_CLASS_WEIGHTS THEN DefaultClassWeight
    ELSE Mul(BASE_CLASS_WEIGHTS[code],
             IF code \in DOMAIN CODE_TO_CAT /\ CODE_TO_CAT[code] \in DOMAIN habitat_pref
             THEN habitat_pref[CODE_TO_CAT[code]]
             ELSE Scale)
C24_ClassScoreUsesPreference ==
    (pc \notin {"build", "build_error"})
        => \A x \in Cells(meta) :
             /\ ClassScore(impl, pixels[x].code, species_params.habitat_pref)
                  = PreferredClassScore(pixels[x].code, species_params.habitat_pref)
             /\ suitability[x] =
                  FinalClip(Composite(
                      PreferredClassScore(pixels[x].code, species_params.habitat_pref),
                      ElevScore(impl, pixels[x].elev, species_params.altitude_tolerance),
                      BioclimScore(impl, pixels[x].clim, climOrder,
                                   species_params.climate_tolerance)))

\* C29: with the seed pixel outside the grid the density stays all zero and
\* every emitted occupancy grid is all zero, whatever the mobility class and
\* the jump probability.
C29_OutOfGridSeedStaysEmpty ==
    (Started /\ ~InGrid(meta, seed[1], seed[2]))
        => /\ D = ZeroGrid(meta)
           /\ \A i \in DOMAIN output_paths : output_paths[i].grid = ZeroGrid(meta)

\* the in-grid 4-neighbours of pixel x
Neighbours4(x) ==
    {y \in Cells(meta) : Abs(x[1] - y[1]) + Abs(x[2] - y[2]) = 1}

\* C30: in each step of the job's loop the new occupancy is the previous one
\* plus exactly the unoccupied pixels with an occupied 4-neighbour and
\* suitability > 0.5; occupied pixels stay occupied and the count recorded
\* for the step does not decrease.
C30_JobColonisesSuitableNeighbours ==
    [][(pc = "job" /\ t' = t + 1)
          => /\ \A x \in Cells(meta) :
                  Infested'[x] =
                      IF Infested[x] = 1 THEN 1
                      ELSE IF (\E y \in Neighbours4(x) : Infested[y] = 1)
                              /\ suitability[x] > 5000
                           THEN 1 ELSE 0
             /\ results'[t'].occupied_count = CountOnes(Infested')
             /\ results'[t'].occupied_count >= CountOnes(Infested)
             /\ \A i \in DOMAIN results : i > 1 =>
                   results[i].occupied_count >= results[i - 1].occupied_count]_vars

\* a step has colonised a pixel, while a pixel of suitability exactly 0.5
\* next to an occupied pixel stays unoccupied
C30_Witness ==
    /\ pc = "job" /\ t >= 2
    /\ results[t].occupied_count > results[1].occupied_count
    /\ \E x \in Cells(meta) :
         /\ Infested[x] = 0 /\ suitability[x] = 5000
         /\ \E y \in Neighbours4(x) : Infested[y] = 1

\* a run is executing: it has started and neither returned nor raised
Executing(p) == runs[p].pc \notin {"init", "returned", "raised"}
\* no other run has started
Alone(p) == \A q \in Runs \ {p} : runs[q].pc = "init"

\* C25: when a run fails during step t (writing, converting or publishing
\* that step's output) nothing of step t is left on disk or in the bucket,
\* and the outputs of the steps before it are still there.
C25_FailedStepLeavesNoOutput ==
    \A p \in Runs :
      (runs[p].pc = "raised" /\ Alone(p)) =>
        /\ runs[p].failed = "write" =>
              /\ TifPath(runs[p].region, runs[p].t) \notin DOMAIN files
              /\ CogPath(runs[p].region, runs[p].t) \notin DOMAIN files
              /\ \A j \in DOMAIN runs[p].output_paths :
                    runs[p].output_paths[j] \in DOMAIN files
        /\ runs[p].failed \in {"upload", "public"} =>
              /\ runs[p].output_paths[runs[p].k + 1] \notin DOMAIN blobs
              /\ \A j \in DOMAIN runs[p].sim_urls :
                    /\ runs[p].sim_urls[j] \in DOMAIN blobs
                    /\ blobs[runs[p].sim_urls[j]].public

\* C26: a run never overwrites or deletes a temporary file, a blob or a
\* result document written by another run that is still executing, and
\* never uploads a file the other run wrote.
C26_RunsShareNothing ==
    [][\A p \in Runs : runs'[p] # runs[p] =>
          /\ \A f \in DOMAIN files :
                (f \notin DOMAIN files' \/ files'[f] # files[f])
                    => (files[f].by = p \/ ~Executing(files[f].by))
          /\ \A b \in DOMAIN blobs :
                blobs'[b] # blobs[b]
                    => (blobs[b].by = p \/ ~Executing(blobs[b].by))
          /\ \A b \in DOMAIN blobs' :
                (b \notin DOMAIN blobs \/ blobs'[b] # blobs[b])
                    => blobs'[b].content.by = p
          /\ \A g \in Regions :
                (docs'[g] # docs[g] /\ docs[g].exists)
                    => (docs[g].status_by = p \/ ~Executing(docs[g].status_by))]_vars

\* C27: whenever a reader is given status 'completed', the timesteps it is
\* given are the URLs of all T outputs of the run that set the status.
C27_CompletedHasAllTimesteps ==
    \A g \in Regions :
      ReadSimulation(g).status = "completed" =>
        /\ docs[g].timesteps_by = docs[g].status_by
        /\ Len(ReadSimulation(g).timesteps) = runs[docs[g].status_by].T

\* C28: a run that ended in failure has left its region's document with
\* status 'failed' and an error message, and no document exists for a region
\* that does not exist.
C28_FailureIsRecorded ==
    /\ \A p \in Runs :
         (runs[p].pc = "raised" /\ Alone(p)) =>
            /\ docs[runs[p].region].status = "failed"
            /\ docs[runs[p].region].error # ""
    /\ \A g \in Regions \ ExistingRegions : ~docs[g].exists

====
